---------------------------- MODULE Spec2Model ----------------------------
(***************************************************************************)
(* Model of the banner generator engine, generateBanners in src/server.js. *)
(*                                                                         *)
(* Strings are sequences of one-character strings.  Numbers read from the  *)
(* template are kept in tenths (fixed point, one fractional digit), so     *)
(* that a declared size such as 33.5 and Math.round are both exact.        *)
(* The template and the live page document are trees of nodes; a text      *)
(* character is a leaf node.  innerHTML is the flat sequence of characters *)
(* and tag marks of a subtree, and assigning innerHTML parses such a       *)
(* sequence back into a subtree.                                           *)
(* The alphabet of texts and values holds no markup characters (<, >, &)   *)
(* and no $, so entity escaping and replacement patterns do not arise.     *)
(***************************************************************************)
EXTENDS Integers, Sequences, FiniteSets, TLC

(***************************************************************************)
(* Characters and numbers                                                  *)
(***************************************************************************)
Digits == <<"0", "1", "2", "3", "4", "5", "6", "7", "8", "9">>

IsDigit(c) == \E i \in 1..Len(Digits) : Digits[i] = c

DigitVal(c) == (CHOOSE i \in 1..Len(Digits) : Digits[i] = c) - 1

\* NaN, the result of parseFloat on text that starts with no number; every
\* other number of the model is >= 0.
NaN == 0 - 1

\* n units in tenths.
Tenths(n) == 10 * n

RECURSIVE DigitRun(_, _)
\* Length of the maximal run of digits of s that starts at index i.
DigitRun(s, i) ==
    IF i <= Len(s) /\ IsDigit(s[i]) THEN 1 + DigitRun(s, i + 1) ELSE 0

RECURSIVE IntVal(_, _, _)
\* Value of the n digits of s that end at index i + n - 1.
IntVal(s, i, n) ==
    IF n = 0 THEN 0
    ELSE 10 * IntVal(s, i, n - 1) + DigitVal(s[i + n - 1])

\* parseFloat: the longest numeric prefix (digits, optionally a point and
\* digits), in tenths; NaN when there is none.  Only the first fractional
\* digit is kept: the templates declare at most one.
ParseFloat(s) ==
    LET n1 == DigitRun(s, 1)
        hasDot == n1 + 1 <= Len(s) /\ s[n1 + 1] = "."
        n2 == IF hasDot THEN DigitRun(s, n1 + 2) ELSE 0
    IN  IF n1 = 0 /\ n2 = 0 THEN NaN
        ELSE Tenths(IntVal(s, 1, n1))
             + (IF n2 > 0 THEN DigitVal(s[n1 + 2]) ELSE 0)

RECURSIVE IntToStr(_)
\* The decimal text of an integer n >= 0, as template literals print it.
IntToStr(n) ==
    IF n < 10 THEN <<Digits[n + 1]>>
    ELSE Append(IntToStr(n \div 10), Digits[(n % 10) + 1])

NumToStr(n) == IF n = NaN THEN <<"N", "a", "N">> ELSE IntToStr(n)

\* The character class [\d\.]+ applied to a whole attribute value.
NumMatch(v) == Len(v) > 0 /\ \A i \in 1..Len(v) : IsDigit(v[i]) \/ v[i] = "."

StartsWith(s, p) == Len(s) >= Len(p) /\ SubSeq(s, 1, Len(p)) = p

EndsWith(s, p) == Len(s) >= Len(p) /\ SubSeq(s, Len(s) - Len(p) + 1, Len(s)) = p

(***************************************************************************)
(* Document tree                                                           *)
(***************************************************************************)
Ch(c) == [tag |-> "#text", attrs |-> <<>>, kids |-> <<>>, ch |-> c]

El(tag, attrs, kids) == [tag |-> tag, attrs |-> attrs, kids |-> kids, ch |-> ""]

\* The character nodes of a string.
Chars(s) == [i \in 1..Len(s) |-> Ch(s[i])]

IsElem(n) == n.tag # "#text"

HasAttr(el, name) == \E i \in 1..Len(el.attrs) : el.attrs[i][1] = name

GetAttr(el, name) ==
    el.attrs[CHOOSE i \in 1..Len(el.attrs) :
                /\ el.attrs[i][1] = name
                /\ \A j \in 1..(i - 1) : el.attrs[j][1] # name][2]

SetAttr(el, name, v) ==
    IF HasAttr(el, name)
    THEN [el EXCEPT !.attrs =
            [i \in 1..Len(el.attrs) |->
                IF el.attrs[i][1] = name THEN <<name, v>> ELSE el.attrs[i]]]
    ELSE [el EXCEPT !.attrs = Append(el.attrs, <<name, v>>)]

RECURSIVE NodeAt(_, _)
NodeAt(n, p) == IF p = <<>> THEN n ELSE NodeAt(n.kids[Head(p)], Tail(p))

RECURSIVE ReplaceAt(_, _, _)
ReplaceAt(n, p, m) ==
    IF p = <<>> THEN m
    ELSE [n EXCEPT !.kids[Head(p)] = ReplaceAt(n.kids[Head(p)], Tail(p), m)]

RECURSIVE PathsFrom(_, _)
RECURSIVE KidsPaths(_, _, _)
\* The paths of the elements of the subtree of n (itself at path p), in
\* document order.
PathsFrom(n, p) ==
    IF IsElem(n) THEN <<p>> \o KidsPaths(n, p, 1) ELSE <<>>

KidsPaths(n, p, i) ==
    IF i > Len(n.kids) THEN <<>>
    ELSE PathsFrom(n.kids[i], Append(p, i)) \o KidsPaths(n, p, i + 1)

\* Paths of the proper descendants of n whose tag is in tags (querySelectorAll,
\* getElementsByTagName), relative to n, in document order.
Descendants(n, tags) ==
    SelectSeq(KidsPaths(n, <<>>, 1), LAMBDA p : NodeAt(n, p).tag \in tags)

IsPrefix(p, q) == Len(p) <= Len(q) /\ SubSeq(q, 1, Len(p)) = p

RECURSIVE TextContent(_)
RECURSIVE KidsText(_, _)
TextContent(n) == IF IsElem(n) THEN KidsText(n.kids, 1) ELSE <<n.ch>>

KidsText(kids, i) ==
    IF i > Len(kids) THEN <<>>
    ELSE TextContent(kids[i]) \o KidsText(kids, i + 1)

SetTextContent(el, s) == [el EXCEPT !.kids = Chars(s)]

(***************************************************************************)
(* innerHTML: serialisation and parsing                                    *)
(***************************************************************************)
ChSym(c) == [k |-> "ch", c |-> c, tag |-> "", attrs |-> <<>>]

OpenSym(n) == [k |-> "open", c |-> "", tag |-> n.tag, attrs |-> n.attrs]

CloseSym(n) == [k |-> "close", c |-> "", tag |-> n.tag, attrs |-> <<>>]

\* A string as markup text.
Flat(s) == [i \in 1..Len(s) |-> ChSym(s[i])]

RECURSIVE Serialize(_, _)
\* The innerHTML of an element with children kids, from child i on.
Serialize(kids, i) ==
    IF i > Len(kids) THEN <<>>
    ELSE (IF IsElem(kids[i])
          THEN <<OpenSym(kids[i])>> \o Serialize(kids[i].kids, 1)
               \o <<CloseSym(kids[i])>>
          ELSE <<ChSym(kids[i].ch)>>)
         \o Serialize(kids, i + 1)

InnerHTML(el) == Serialize(el.kids, 1)

\* Parser stack: frame 1 is the context element, later frames are open tags.
CloseTop(stack) ==
    LET n == Len(stack)
        top == stack[n]
    IN  [SubSeq(stack, 1, n - 1) EXCEPT
            ![n - 1].kids = Append(@, El(top.tag, top.attrs, top.kids))]

RECURSIVE CloseTo(_, _)
\* Close the open frames down to and including frame j.
CloseTo(stack, j) ==
    IF Len(stack) < j THEN stack ELSE CloseTo(CloseTop(stack), j)

ParseSym(stack, sym) ==
    LET n == Len(stack) IN
    CASE sym.k = "ch" ->
            [stack EXCEPT ![n].kids = Append(@, Ch(sym.c))]
      [] sym.k = "open" ->
            Append(stack, [tag |-> sym.tag, attrs |-> sym.attrs, kids |-> <<>>])
      [] OTHER ->
            \* an end tag closes the innermost open element of that name and
            \* everything opened inside it; with none open it is dropped
            IF \E j \in 2..n : stack[j].tag = sym.tag
            THEN CloseTo(stack,
                    CHOOSE j \in 2..n :
                        /\ stack[j].tag = sym.tag
                        /\ \A m \in (j + 1)..n : stack[m].tag # sym.tag)
            ELSE stack

RECURSIVE ParseFrom(_, _, _)
ParseFrom(flat, i, stack) ==
    IF i > Len(flat) THEN CloseTo(stack, 2)[1].kids
    ELSE ParseFrom(flat, i + 1, ParseSym(stack, flat[i]))

\* The children that assigning markup `flat` to innerHTML produces.
ParseHTML(flat) ==
    ParseFrom(flat, 1, <<[tag |-> "", attrs |-> <<>>, kids |-> <<>>]>>)

SetInnerHTML(el, flat) == [el EXCEPT !.kids = ParseHTML(flat)]

\* The characters of markup that holds no tags.
FlatText(flat) == [i \in 1..Len(flat) |-> flat[i].c]

(***************************************************************************)
(* Placeholder tokens: the two regular expressions of the text branches    *)
(***************************************************************************)
\* What a regular expression sees at index i of markup: the character, or a
\* piece of tag text (which is neither a brace nor white space).
SymChar(s, i) == IF i <= Len(s) /\ s[i].k = "ch" THEN s[i].c ELSE "<>"

IsBraces(s, i, c) == i + 1 <= Len(s) /\ SymChar(s, i) = c /\ SymChar(s, i + 1) = c

RECURSIVE WsRun(_, _)
\* Length of the run of white space (\s*) of s that starts at index i.
WsRun(s, i) ==
    IF i <= Len(s) /\ SymChar(s, i) = " " THEN 1 + WsRun(s, i + 1) ELSE 0

RECURSIVE NonCloseRun(_, _)
\* Length of the run of [^}] of s that starts at index i.
NonCloseRun(s, i) ==
    IF i <= Len(s) /\ SymChar(s, i) # "}" THEN 1 + NonCloseRun(s, i + 1) ELSE 0

\* new RegExp(`{{\\s*${csvHeader}\\s*}}`) tried at index i: the index of the
\* last character of the match, 0 when there is none.  Column names are
\* letters only (no white space, no regular-expression operators).
MatchSpecific(s, i, header) ==
    IF ~IsBraces(s, i, "{") THEN 0
    ELSE LET a == i + 2 + WsRun(s, i + 2)
             b == a + Len(header)
             e == b + WsRun(s, b)
         IN  IF /\ b - 1 <= Len(s)
                /\ \A j \in 1..Len(header) : SymChar(s, a + j - 1) = header[j]
                /\ IsBraces(s, e, "}")
             THEN e + 1 ELSE 0

\* /{{\s*[^}]+\s*}}/ tried at index i: \s*[^}]+\s* is any non-empty run of
\* characters other than }, so the match is {{, the whole run up to the
\* first }, and }}.
MatchGeneric(s, i) ==
    IF ~IsBraces(s, i, "{") THEN 0
    ELSE LET n == NonCloseRun(s, i + 2)
         IN  IF n >= 1 /\ IsBraces(s, i + 2 + n, "}") THEN i + 3 + n ELSE 0

MatchAt(s, i, header, generic) ==
    IF generic THEN MatchGeneric(s, i) ELSE MatchSpecific(s, i, header)

\* String.prototype.match: is there a match anywhere.
HasMatch(s, header, generic) ==
    \E i \in 1..Len(s) : MatchAt(s, i, header, generic) > 0

RECURSIVE ReplaceFrom(_, _, _, _, _)
\* String.prototype.replace with a global expression: every match, left to
\* right and not overlapping, becomes v.
ReplaceFrom(s, i, header, generic, v) ==
    IF i > Len(s) THEN <<>>
    ELSE LET e == MatchAt(s, i, header, generic)
         IN  IF e > 0 THEN v \o ReplaceFrom(s, e + 1, header, generic, v)
             ELSE <<s[i]>> \o ReplaceFrom(s, i + 1, header, generic, v)

ReplaceAll(s, header, generic, v) == ReplaceFrom(s, 1, header, generic, v)

(***************************************************************************)
(* Program constants                                                       *)
(***************************************************************************)
defaultWidth == 800

defaultHeight == 400

scaleFactor == 3

margin == 10

(***************************************************************************)
(* 1. Scaling logic (the document sizer)                                   *)
(***************************************************************************)
\* Attribute names whose text ends in width / height: the expressions
\* /width="..."/ and /height="..."/ are not anchored at the start of a name.
WidthNames == {"width", "stroke-width"}

HeightNames == {"height"}

RECURSIVE AttrOccsOf(_, _, _)
AttrOccsOf(doc, paths, i) ==
    IF i > Len(paths) THEN <<>>
    ELSE [j \in 1..Len(NodeAt(doc, paths[i]).attrs) |-> <<paths[i], j>>]
         \o AttrOccsOf(doc, paths, i + 1)

\* Every attribute of the template text, <<path of its element, index>>, in
\* the order the text holds them.
AttrOccs(doc) == AttrOccsOf(doc, PathsFrom(doc, <<>>), 1)

OccName(doc, o) == NodeAt(doc, o[1]).attrs[o[2]][1]

OccValue(doc, o) == NodeAt(doc, o[1]).attrs[o[2]][2]

NoOcc == <<>>

\* The first place of the template text where name="value" matches, the name
\* ending as one of names and the value being [\d\.]+ (numeric) or [^"]+.
FirstOcc(doc, names, numeric) ==
    LET occs == AttrOccs(doc)
        ok(i) == /\ OccName(doc, occs[i]) \in names
                 /\ IF numeric THEN NumMatch(OccValue(doc, occs[i]))
                    ELSE Len(OccValue(doc, occs[i])) > 0
    IN  IF \E i \in 1..Len(occs) : ok(i)
        THEN occs[CHOOSE i \in 1..Len(occs) :
                    ok(i) /\ \A j \in 1..(i - 1) : ~ok(j)]
        ELSE NoOcc

RECURSIVE LastSpace(_, _)
\* The greatest index <= n of a space in v, 0 when there is none.
LastSpace(v, n) ==
    IF n <= 0 THEN 0 ELSE IF v[n] = " " THEN n ELSE LastSpace(v, n - 1)

\* /viewBox="[\d\.\s]+ ([\d\.]+) ([\d\.]+)"/ on an attribute value: the two
\* captured groups, <<>> when the value does not match.
ViewBoxGroups(v) ==
    LET s2 == LastSpace(v, Len(v))
        s1 == LastSpace(v, s2 - 1)
        g2 == SubSeq(v, s2 + 1, Len(v))
        g1 == SubSeq(v, s1 + 1, s2 - 1)
        pre == SubSeq(v, 1, s1 - 1)
    IN  IF /\ s2 > 0 /\ s1 > 0
           /\ NumMatch(g1) /\ NumMatch(g2)
           /\ Len(pre) > 0
           /\ \A i \in 1..Len(pre) : IsDigit(pre[i]) \/ pre[i] = "." \/ pre[i] = " "
        THEN <<g1, g2>> ELSE <<>>

FirstViewBox(doc) ==
    LET occs == AttrOccs(doc)
        ok(i) == /\ OccName(doc, occs[i]) = "viewBox"
                 /\ ViewBoxGroups(OccValue(doc, occs[i])) # <<>>
    IN  IF \E i \in 1..Len(occs) : ok(i)
        THEN occs[CHOOSE i \in 1..Len(occs) :
                    ok(i) /\ \A j \in 1..(i - 1) : ~ok(j)]
        ELSE NoOcc

\* width and height (tenths) as lines 28-39 settle them.
BaseSize(tpl) ==
    LET widthMatch == FirstOcc(tpl, WidthNames, TRUE)
        heightMatch == FirstOcc(tpl, HeightNames, TRUE)
        viewBoxMatch == FirstViewBox(tpl)
    IN  IF widthMatch # NoOcc /\ heightMatch # NoOcc
        THEN [width |-> ParseFloat(OccValue(tpl, widthMatch)),
              height |-> ParseFloat(OccValue(tpl, heightMatch))]
        ELSE IF viewBoxMatch # NoOcc
        THEN LET g == ViewBoxGroups(OccValue(tpl, viewBoxMatch))
             IN  [width |-> ParseFloat(g[1]), height |-> ParseFloat(g[2])]
        ELSE [width |-> Tenths(defaultWidth), height |-> Tenths(defaultHeight)]

\* Math.round(x * scaleFactor) of x in tenths: a whole number of units, a
\* half rounding up.
RoundScaled(x) ==
    IF x = NaN THEN NaN ELSE (x * scaleFactor + 5) \div 10

FinalSize(tpl) ==
    [width |-> RoundScaled(BaseSize(tpl).width),
     height |-> RoundScaled(BaseSize(tpl).height)]

\* String.prototype.replace with /name="[^"]+"/: the first such attribute of
\* the text takes the value v.
RewriteFirst(tpl, names, v) ==
    LET o == FirstOcc(tpl, names, FALSE)
    IN  IF o = NoOcc THEN tpl
        ELSE LET el == NodeAt(tpl, o[1])
             IN  ReplaceAt(tpl, o[1],
                    [el EXCEPT !.attrs[o[2]] = <<el.attrs[o[2]][1], v>>])

\* The template every row is loaded from (lines 45-46).
SizedTemplate(tpl) ==
    RewriteFirst(RewriteFirst(tpl, WidthNames, NumToStr(FinalSize(tpl).width)),
                 HeightNames, NumToStr(FinalSize(tpl).height))

(***************************************************************************)
(* The page document: lookups and measurement                              *)
(***************************************************************************)
NoPath == <<0>>

\* document.getElementById: the first element in document order.
GetById(doc, id) ==
    LET paths == PathsFrom(doc, <<>>)
        ok(i) == LET el == NodeAt(doc, paths[i])
                 IN  HasAttr(el, "id") /\ GetAttr(el, "id") = id
    IN  IF \E i \in 1..Len(paths) : ok(i)
        THEN paths[CHOOSE i \in 1..Len(paths) :
                     ok(i) /\ \A j \in 1..(i - 1) : ~ok(j)]
        ELSE NoPath

\* A length attribute as the renderer reads it, 0 when absent or no number.
AttrNum(el, name) ==
    IF HasAttr(el, name) /\ ParseFloat(GetAttr(el, name)) # NaN
    THEN ParseFloat(GetAttr(el, name)) ELSE 0

RECURSIVE SplitSpaces(_, _, _)
\* The space-separated words of v from index i on, cur being the word read.
SplitSpaces(v, i, cur) ==
    IF i > Len(v) THEN (IF cur = <<>> THEN <<>> ELSE <<cur>>)
    ELSE IF v[i] = " "
         THEN (IF cur = <<>> THEN <<>> ELSE <<cur>>) \o SplitSpaces(v, i + 1, <<>>)
         ELSE SplitSpaces(v, i + 1, Append(cur, v[i]))

\* svg.viewBox.baseVal.width: the third of four numbers, 0 for a missing or
\* invalid viewBox.
ViewBoxBaseWidth(svg) ==
    IF ~HasAttr(svg, "viewBox") THEN 0
    ELSE LET w == SplitSpaces(GetAttr(svg, "viewBox"), 1, <<>>)
         IN  IF Len(w) = 4 /\ \A i \in 1..4 : NumMatch(w[i]) /\ ParseFloat(w[i]) # NaN
             THEN ParseFloat(w[3]) ELSE 0

\* svgWidth of line 266 (tenths); 0 and NaN are falsy.
SvgWidth(doc) ==
    IF ViewBoxBaseWidth(doc) # 0 THEN ViewBoxBaseWidth(doc)
    ELSE IF HasAttr(doc, "width") THEN ParseFloat(GetAttr(doc, "width")) ELSE NaN

(***************************************************************************)
(* Rendering model: what getBBox returns                                   *)
(***************************************************************************)
\* Advance of one character, in units (every glyph is equally wide).
CharWidth == 4

\* getBBox of a text element: its x attribute and the width of its text.
TextBBox(el) ==
    [x |-> AttrNum(el, "x"),
     width |-> Tenths(CharWidth * Len(TextContent(el)))]

\* getBBox of a circle or an ellipse (tenths); other shapes have no geometry
\* in this model and get the empty box.
ShapeBBox(el) ==
    CASE el.tag = "circle" ->
            [x |-> AttrNum(el, "cx") - AttrNum(el, "r"),
             y |-> AttrNum(el, "cy") - AttrNum(el, "r"),
             width |-> 2 * AttrNum(el, "r"),
             height |-> 2 * AttrNum(el, "r")]
      [] el.tag = "ellipse" ->
            [x |-> AttrNum(el, "cx") - AttrNum(el, "rx"),
             y |-> AttrNum(el, "cy") - AttrNum(el, "ry"),
             width |-> 2 * AttrNum(el, "rx"),
             height |-> 2 * AttrNum(el, "ry")]
      [] OTHER -> [x |-> 0, y |-> 0, width |-> 0, height |-> 0]

\* A number in tenths as setAttribute prints it.
DecToStr(t) ==
    LET a == IF t < 0 THEN 0 - t ELSE t
        whole == IntToStr(a \div 10)
        frac == IF a % 10 = 0 THEN <<>> ELSE <<".", Digits[(a % 10) + 1]>>
    IN  (IF t < 0 THEN <<"-">> ELSE <<>>) \o whole \o frac

(***************************************************************************)
(* Element classifier and shape promoter (lines 140-175)                   *)
(***************************************************************************)
ShapeTags == {"rect", "path", "circle", "ellipse"}

UpperCase == <<"A", "B", "C", "D", "E", "F", "G", "H", "I", "J", "K", "L", "M",
               "N", "O", "P", "Q", "R", "S", "T", "U", "V", "W", "X", "Y", "Z">>

LowerCase == <<"a", "b", "c", "d", "e", "f", "g", "h", "i", "j", "k", "l", "m",
               "n", "o", "p", "q", "r", "s", "t", "u", "v", "w", "x", "y", "z">>

ToLower(c) ==
    IF \E i \in 1..Len(UpperCase) : UpperCase[i] = c
    THEN LowerCase[CHOOSE i \in 1..Len(UpperCase) : UpperCase[i] = c]
    ELSE c

LowerStr(s) == [i \in 1..Len(s) |-> ToLower(s[i])]

ImageExts == {<<".", "j", "p", "e", "g">>, <<".", "j", "p", "g">>,
              <<".", "g", "i", "f">>, <<".", "p", "n", "g">>,
              <<".", "w", "e", "b", "p">>}

\* isImageUrl of lines 145-147.
IsImageUrl(value) ==
    \/ \E e \in ImageExts : EndsWith(LowerStr(value), e)
    \/ StartsWith(value, <<"h", "t", "t", "p">>)
    \/ StartsWith(value, <<"d", "a", "t", "a", ":">>)

xMidYMidMeet == <<"x", "M", "i", "d", "Y", "M", "i", "d", " ", "m", "e", "e", "t">>

RectGeometry == <<"x", "y", "width", "height", "rx", "ry">>

RECURSIVE CopyAttrs(_, _, _, _)
\* lines 155-157: each listed attribute the shape has is copied to img.
CopyAttrs(img, el, names, i) ==
    IF i > Len(names) THEN img
    ELSE CopyAttrs(IF HasAttr(el, names[i])
                   THEN SetAttr(img, names[i], GetAttr(el, names[i])) ELSE img,
                   el, names, i + 1)

\* An image element that is not given the id of the shape.
PromotedImageNoId(el, value) ==
    LET img0 == El("image", <<>>, <<>>)
        bbox == ShapeBBox(el)
        img1 == IF el.tag = "rect" THEN CopyAttrs(img0, el, RectGeometry, 1)
                ELSE SetAttr(SetAttr(SetAttr(SetAttr(img0,
                        "x", DecToStr(bbox.x)), "y", DecToStr(bbox.y)),
                        "width", DecToStr(bbox.width)),
                        "height", DecToStr(bbox.height))
    IN  SetAttr(SetAttr(img1, "preserveAspectRatio", xMidYMidMeet), "href", value)

\* The image element that replaces shape el (lines 151-169).
PromotedImage(el, value) ==
    LET img0 == El("image", <<>>, <<>>)
        bbox == ShapeBBox(el)
        img1 == IF el.tag = "rect" THEN CopyAttrs(img0, el, RectGeometry, 1)
                ELSE SetAttr(SetAttr(SetAttr(SetAttr(img0,
                        "x", DecToStr(bbox.x)), "y", DecToStr(bbox.y)),
                        "width", DecToStr(bbox.width)),
                        "height", DecToStr(bbox.height))
    IN  SetAttr(SetAttr(SetAttr(img1, "preserveAspectRatio", xMidYMidMeet),
                        "href", value),
                "id", GetAttr(el, "id"))

\* Image fill (lines 141-142).
FillImage(el, value) ==
    SetAttr(SetAttr(el, "href", value), "preserveAspectRatio", xMidYMidMeet)

(***************************************************************************)
(* Text mutator (lines 228-261) and group mutator (lines 181-224)          *)
(***************************************************************************)
\* A cascade that tries the generic token before the column's own.
StrategyGenericFirst(el, header) ==
    IF HasMatch(InnerHTML(el), header, TRUE) THEN 2
    ELSE IF HasMatch(InnerHTML(el), header, FALSE) THEN 1
    ELSE IF HasMatch(Flat(TextContent(el)), header, TRUE) THEN 4
    ELSE IF HasMatch(Flat(TextContent(el)), header, FALSE) THEN 3
    ELSE 5

\* Which branch of the cascade an element takes: 1 specific token in
\* innerHTML, 2 generic token in innerHTML, 3 specific token in textContent,
\* 4 generic token in textContent, 5 none.
Strategy(el, header) ==
    IF HasMatch(InnerHTML(el), header, FALSE) THEN 1
    ELSE IF HasMatch(InnerHTML(el), header, TRUE) THEN 2
    ELSE IF HasMatch(Flat(TextContent(el)), header, FALSE) THEN 3
    ELSE IF HasMatch(Flat(TextContent(el)), header, TRUE) THEN 4
    ELSE 5

\* A mutator that rewrites the plain text whichever branch is taken.
ApplyStrategyPlain(el, n, header, value) ==
    IF n = 5 THEN SetTextContent(el, value)
    ELSE SetTextContent(el,
            FlatText(ReplaceAll(Flat(TextContent(el)), header, n \in {2, 4},
                                Flat(value))))

\* The element after branch n of the cascade ran with the value.
ApplyStrategy(el, n, header, value) ==
    CASE n \in {1, 2} ->
            SetInnerHTML(el, ReplaceAll(InnerHTML(el), header, n = 2, Flat(value)))
      [] n \in {3, 4} ->
            SetTextContent(el,
                FlatText(ReplaceAll(Flat(TextContent(el)), header, n = 4, Flat(value))))
      [] OTHER ->
            \* pure id mode: a single tspan keeps its place
            LET tspans == Descendants(el, {"tspan"})
            IN  IF Len(tspans) = 1
                THEN ReplaceAt(el, tspans[1],
                        SetTextContent(NodeAt(el, tspans[1]), value))
                ELSE SetTextContent(el, value)

TextMutate(el, header, value) ==
    ApplyStrategy(el, Strategy(el, header), header, value)

\* One step of textDescendants.forEach.  g0 is the group as it was found:
\* the node list is static, so a child under an already rewritten element is
\* detached; it is still examined, and changing it changes nothing of g.
GroupChild(g0, acc, p, header, value) ==
    LET child == NodeAt(g0, p)
        n == Strategy(child, header)
        detached == \E q \in acc.rewritten : q # p /\ IsPrefix(q, p)
    IN  IF n = 5 THEN acc
        ELSE [g |-> IF detached THEN acc.g
                    ELSE ReplaceAt(acc.g, p, ApplyStrategy(child, n, header, value)),
              updated |-> TRUE,
              rewritten |-> acc.rewritten \cup {p}]

RECURSIVE GroupScan(_, _, _, _, _, _)
GroupScan(g0, paths, i, acc, header, value) ==
    IF i > Len(paths) THEN acc
    ELSE GroupScan(g0, paths, i + 1,
                   GroupChild(g0, acc, paths[i], header, value), header, value)

\* A fallback that writes the text of the whole group.
GroupMutateWhole(g, header, value) ==
    LET textDescendants == Descendants(g, {"text", "tspan"})
        r == GroupScan(g, textDescendants, 1,
                       [g |-> g, updated |-> FALSE, rewritten |-> {}],
                       header, value)
    IN  IF r.updated THEN r.g ELSE SetTextContent(g, value)

GroupMutate(g, header, value) ==
    LET textDescendants == Descendants(g, {"text", "tspan"})
        r == GroupScan(g, textDescendants, 1,
                       [g |-> g, updated |-> FALSE, rewritten |-> {}],
                       header, value)
    IN  IF r.updated THEN r.g
        ELSE IF Len(textDescendants) > 0
        THEN ReplaceAt(g, textDescendants[1],
                SetTextContent(NodeAt(g, textDescendants[1]), value))
        ELSE g

(***************************************************************************)
(* State                                                                   *)
(***************************************************************************)
VARIABLES
    template,       \* the template text as read from svgPath (a tree)
    mapping,        \* Object.keys(mapping) in order: <<svgId, csvHeader>> pairs
    rows,           \* the parsed CSV rows: functions from header to value
    svgTemplate,    \* the template string the row loop loads (sized)
    viewport,       \* what page.setViewport was given
    browser,        \* "none", "open" or "closed"
    pc,             \* position in generateBanners
    i,              \* 1 + the loop variable i of the row loop, then of the upload loop
    doc,            \* the live document of the page
    ev,             \* locals of the mapping script (page.evaluate) of the row
    captured,       \* per screenshot taken: the document and its getBBox failures
    disk,           \* the files of outputDir: file name -> the document shown
    generatedFiles, \* generatedFiles
    reportData,     \* reportData
    log             \* history: what the function has done so far, in order

vars == <<template, mapping, rows, svgTemplate, viewport, browser, pc, i, doc,
          ev, captured, disk, generatedFiles, reportData, log>>

(***************************************************************************)
(* The mapping script of one row (lines 127-363), one step at a time       *)
(***************************************************************************)
\* Only the first MaxCalls getBBox calls of a row may throw.
MaxCalls == 3

Ellipsis == <<".", ".", ".">>

RowValue(row, header) == IF header \in DOMAIN row THEN row[header] ELSE <<>>

\* Locals at the start of the script; with an empty mapping it is not run.
InitEv(d) ==
    [step |-> IF Len(mapping) > 0 THEN "entry" ELSE "done",
     k |-> 1, calls |-> 0, threw |-> {},
     el |-> NoPath, target |-> NoPath, text |-> <<>>, loopCount |-> 0, avail |-> 0,
     \* history: the entry last applied, the document before it, the text of
     \* its element right after the mutation, whether the catch of line 356 ran
     last |-> 0, before |-> d, mutText |-> <<>>, caught |-> FALSE]

\* One getBBox call was made; thrown tells whether it threw.
Call(e, thrown) ==
    [e EXCEPT !.calls = @ + 1,
              !.threw = IF thrown THEN @ \cup {e.calls + 1} ELSE @]

\* The forEach callback of entry k returned: on to the next key.
NextEntry(e) ==
    [e EXCEPT !.k = @ + 1,
              !.step = IF e.k + 1 > Len(mapping) THEN "done" ELSE "entry"]

\* A guard that lets an empty value through.
TargetsAnyValue(value, p) == p # NoPath

\* The two guards of lines 134 and 136: a truthy value, an element found.
Targets(value, p) == value # <<>> /\ p # NoPath

\* A loop that stops one character early.
LoopConditionEarly(width, availableWidth, text) ==
    width > availableWidth /\ Len(text) > 1

\* The loop condition of line 347, the measurement having succeeded.
LoopCondition(width, availableWidth, text) ==
    width > availableWidth /\ Len(text) > 0

\* The catch of lines 356-358: the error is logged and the callback returns.
Caught(e) == NextEntry([Call(e, TRUE) EXCEPT !.caught = TRUE])

\* Does the step at hand call getBBox.
MakesCall(d, e, row) ==
    CASE e.step = "entry" ->
            LET value == RowValue(row, mapping[e.k][2])
                p == GetById(d, mapping[e.k][1])
            IN  /\ Targets(value, p)
                /\ NodeAt(d, p).tag \in ShapeTags \ {"rect"}
                /\ IsImageUrl(value)
      [] e.step = "truncCheck" -> SvgWidth(d) \notin {0, NaN}
      [] e.step \in {"truncLoop", "truncLoopLog", "truncLog"} -> TRUE
      [] OTHER -> FALSE

\* Lines 130-261: the mutation of entry k.  A getBBox failure in the shape
\* branch is not caught: it ends the script.
EntryStep(d, e, row, thrown) ==
    LET svgId == mapping[e.k][1]
        csvHeader == mapping[e.k][2]
        value == RowValue(row, csvHeader)
        p == GetById(d, svgId)
        el == NodeAt(d, p)
        e0 == [e EXCEPT !.before = d, !.last = e.k, !.el = NoPath,
                        !.mutText = <<>>, !.caught = FALSE]
    IN  IF ~Targets(value, p)
        THEN [doc |-> d, ev |-> NextEntry(e0)]
        ELSE IF el.tag = "image"
        THEN [doc |-> ReplaceAt(d, p, FillImage(el, value)), ev |-> NextEntry(e0)]
        ELSE IF el.tag \in ShapeTags
        THEN IF IsImageUrl(value)
             THEN IF el.tag # "rect" /\ thrown
                  THEN [doc |-> d, ev |-> [Call(e0, TRUE) EXCEPT !.step = "thrown"]]
                  ELSE [doc |-> ReplaceAt(d, p, PromotedImage(el, value)),
                        ev |-> NextEntry(IF el.tag = "rect" THEN e0
                                         ELSE Call(e0, FALSE))]
             ELSE [doc |-> ReplaceAt(d, p, SetAttr(el, "fill", value)),
                   ev |-> NextEntry(e0)]
        ELSE IF el.tag = "g"
        THEN [doc |-> ReplaceAt(d, p, GroupMutate(el, csvHeader, value)),
              ev |-> NextEntry(e0)]
        ELSE [doc |-> ReplaceAt(d, p, TextMutate(el, csvHeader, value)),
              ev |-> [e0 EXCEPT
                        !.step = "truncCheck", !.el = p,
                        !.mutText = TextContent(TextMutate(el, csvHeader, value))]]

\* Lines 264-342: the first measurement and the choice of the target.  A
\* failure is caught at line 356 and the callback returns.
TruncCheckStep(d, e, thrown) ==
    LET svgWidth == SvgWidth(d)
        el == NodeAt(d, e.el)
        bbox == TextBBox(el)
        availableWidth == svgWidth - bbox.x - Tenths(margin)
        tspans == Descendants(el, {"tspan"})
        target == IF Len(tspans) > 0 THEN e.el \o tspans[Len(tspans)] ELSE e.el
    IN  IF svgWidth \in {0, NaN} THEN [doc |-> d, ev |-> NextEntry(e)]
        ELSE IF thrown THEN [doc |-> d, ev |-> Caught(e)]
        ELSE IF bbox.width > availableWidth
        THEN [doc |-> d,
              ev |-> [Call(e, FALSE) EXCEPT
                        !.step = "truncLoop", !.target = target,
                        !.text = TextContent(NodeAt(d, target)),
                        !.loopCount = 0, !.avail = availableWidth]]
        ELSE [doc |-> d, ev |-> NextEntry(Call(e, FALSE))]

\* Lines 347-350: the loop condition and, when it holds, one iteration.
TruncLoopStep(d, e, thrown) ==
    LET text == SubSeq(e.text, 1, Len(e.text) - 1) IN
    IF thrown THEN [doc |-> d, ev |-> Caught(e)]
    ELSE IF LoopCondition(TextBBox(NodeAt(d, e.el)).width, e.avail, e.text)
    THEN [doc |-> ReplaceAt(d, e.target,
                    SetTextContent(NodeAt(d, e.target), text \o Ellipsis)),
          ev |-> [Call(e, FALSE) EXCEPT
                    !.text = text, !.loopCount = @ + 1,
                    !.step = IF (e.loopCount + 1) % 10 = 0
                             THEN "truncLoopLog" ELSE "truncLoop"]]
    ELSE [doc |-> d, ev |-> [Call(e, FALSE) EXCEPT !.step = "truncLog"]]

\* Line 351: every tenth iteration logs the width, which measures again.
TruncLoopLogStep(d, e, thrown) ==
    [doc |-> d,
     ev |-> IF thrown THEN Caught(e)
            ELSE [Call(e, FALSE) EXCEPT !.step = "truncLoop"]]

\* Line 353: the final log measures once more.
TruncLogStep(d, e, thrown) ==
    [doc |-> d, ev |-> IF thrown THEN Caught(e) ELSE NextEntry(Call(e, FALSE))]

EvalStep(d, e, row, thrown) ==
    CASE e.step = "entry" -> EntryStep(d, e, row, thrown)
      [] e.step = "truncCheck" -> TruncCheckStep(d, e, thrown)
      [] e.step = "truncLoop" -> TruncLoopStep(d, e, thrown)
      [] e.step = "truncLoopLog" -> TruncLoopLogStep(d, e, thrown)
      [] e.step = "truncLog" -> TruncLogStep(d, e, thrown)
      [] OTHER -> [doc |-> d, ev |-> e]

\* The outermost text elements of a group: those not inside another one.
OutermostTexts(g) ==
    LET ds == Descendants(g, {"text", "tspan"})
    IN  {ds[j] : j \in {j \in 1..Len(ds) :
            \A m \in 1..Len(ds) : m = j \/ ~IsPrefix(ds[m], ds[j])}}

\* The text elements whose content the mutation of entry k writes: the mapped
\* text element, or the outermost text elements of the mapped group in which
\* a pattern matched, or else the first text element of the group.
RewrittenTexts(d, e, row) ==
    LET csvHeader == mapping[e.k][2]
        value == RowValue(row, csvHeader)
        p == GetById(d, mapping[e.k][1])
        el == NodeAt(d, p)
        textDescendants == Descendants(el, {"text", "tspan"})
        matched == {q \in OutermostTexts(el) : Strategy(NodeAt(el, q), csvHeader) # 5}
    IN  IF ~Targets(value, p) \/ el.tag \in ShapeTags \cup {"image"} THEN {}
        ELSE IF el.tag # "g" THEN {p}
        ELSE IF matched # {} THEN {p \o q : q \in matched}
        ELSE IF Len(textDescendants) > 0 THEN {p \o textDescendants[1]}
        ELSE {}

(***************************************************************************)
(* Inputs: templates, mappings and rows                                    *)
(***************************************************************************)
colP == <<"P">>

colQ == <<"Q">>

product_name == <<"p", "r", "o", "d", "u", "c", "t", "_", "n", "a", "m", "e">>

tokP == <<"{", "{", "P", "}", "}">>

tokQ == <<"{", "{", "Q", "}", "}">>

idOf(c) == <<"id", <<c>>>>

\* <svg width="20" height="5"> <text id="t" x="0">{{P}} {{Q}}</text>
\*   <rect id="r" x="1" y="2" width="3" height="4" rx="1"/> </svg>
TplTokens ==
    El("svg", << <<"width", <<"2", "0">>>>, <<"height", <<"5">>>> >>,
       << El("text", <<idOf("t"), <<"x", <<"0">>>>>>, Chars(tokP \o <<" ">> \o tokQ)),
          El("rect", <<idOf("r"), <<"x", <<"1">>>>, <<"y", <<"2">>>>,
                       <<"width", <<"3">>>>, <<"height", <<"4">>>>,
                       <<"rx", <<"1">>>>>>, <<>>) >>)

\* <svg viewBox="0 0 30 10"> <circle id="c" cx="5" cy="5" r="2"/>
\*   <text id="t" x="4"><tspan>old</tspan></text> </svg>
TplPlain ==
    El("svg", << <<"viewBox", <<"0", " ", "0", " ", "3", "0", " ", "1", "0">>>> >>,
       << El("circle", <<idOf("c"), <<"cx", <<"5">>>>, <<"cy", <<"5">>>>,
                         <<"r", <<"2">>>>>>, <<>>),
          El("text", <<idOf("t"), <<"x", <<"4">>>>>>,
             <<El("tspan", <<>>, Chars(<<"o", "l", "d">>))>>) >>)

\* <svg> <g id="g"><circle r="1"/><text>na</text><text>me</text></g>
\*   <g id="h"><text>a<tspan>b</tspan><tspan>c</tspan></text></g>
\*   <g id="k"><circle r="1"/></g> </svg>
TplGroups ==
    El("svg", <<>>,
       << El("g", <<idOf("g")>>,
             << El("circle", << <<"r", <<"1">>>> >>, <<>>),
                El("text", <<>>, Chars(<<"n", "a">>)),
                El("text", <<>>, Chars(<<"m", "e">>)) >>),
          El("g", <<idOf("h")>>,
             << El("text", <<>>,
                   Chars(<<"a">>) \o <<El("tspan", <<>>, Chars(<<"b">>)),
                                       El("tspan", <<>>, Chars(<<"c">>))>>) >>),
          El("g", <<idOf("k")>>, << El("circle", << <<"r", <<"1">>>> >>, <<>>) >>) >>)

\* <svg width="33.5" height="10.5">
\*   <g id="g"><text>{{P}}</text><text>{{Q}}</text><text>{{Q}}{{P}}</text></g>
\*   <text id="t">{{<tspan>P</tspan>}} {{Q}}</text> </svg>
TplSplit ==
    El("svg", << <<"width", <<"3", "3", ".", "5">>>>,
                 <<"height", <<"1", "0", ".", "5">>>> >>,
       << El("g", <<idOf("g")>>,
             << El("text", <<>>, Chars(tokP)), El("text", <<>>, Chars(tokQ)),
                El("text", <<>>, Chars(tokQ \o tokP)) >>),
          El("text", <<idOf("t")>>,
             Chars(<<"{", "{">>) \o <<El("tspan", <<>>, Chars(colP))>>
             \o Chars(<<"}", "}", " ">> \o tokQ)) >>)

\* <svg width="10px" height="5px" viewBox="0 0 30 10"> <image id="i" href="o"/>
\*   <text id="t" x="0">lmnopq<tspan>{{P}}</tspan></text> </svg>
TplUnits ==
    El("svg", << <<"width", <<"1", "0", "p", "x">>>>, <<"height", <<"5", "p", "x">>>>,
                 <<"viewBox", <<"0", " ", "0", " ", "3", "0", " ", "1", "0">>>> >>,
       << El("image", <<idOf("i"), <<"href", <<"o">>>>>>, <<>>),
          El("text", <<idOf("t"), <<"x", <<"0">>>>>>,
             Chars(<<"l", "m", "n", "o", "p", "q">>)
             \o <<El("tspan", <<>>, Chars(tokP))>>) >>)

\* <svg viewBox="0 0 30 10"> <rect id="r" x="1" y="1" width="8" height="4"/>
\*   <ellipse id="e" cx="5" cy="5" rx="2" ry="1"/>
\*   <text id="t" x="0">{{P}}<tspan></tspan></text> </svg>
TplChildSize ==
    El("svg", << <<"viewBox", <<"0", " ", "0", " ", "3", "0", " ", "1", "0">>>> >>,
       << El("rect", <<idOf("r"), <<"x", <<"1">>>>, <<"y", <<"1">>>>,
                       <<"width", <<"8">>>>, <<"height", <<"4">>>>>>, <<>>),
          El("ellipse", <<idOf("e"), <<"cx", <<"5">>>>, <<"cy", <<"5">>>>,
                          <<"rx", <<"2">>>>, <<"ry", <<"1">>>>>>, <<>>),
          El("text", <<idOf("t"), <<"x", <<"0">>>>>>,
             Chars(tokP) \o <<El("tspan", <<>>, <<>>)>>) >>)

\* <svg stroke-width="2" width="20" height="5"> <text id="t">hi</text> </svg>
TplStroke ==
    El("svg", << <<"stroke-width", <<"2">>>>, <<"width", <<"2", "0">>>>,
                 <<"height", <<"5">>>> >>,
       << El("text", <<idOf("t")>>, Chars(<<"h", "i">>)) >>)

\* <svg viewBox="0 0 90 10"> <text id="s" x="0">{<tspan>{P}}</tspan></text>
\*   <text id="u" x="0">{<tspan>{Q}}</tspan></text>
\*   <text id="n" x="0"><tspan>a<tspan>b</tspan></tspan></text>
\*   <g id="g"><text>{{P}}<tspan>{{Q}}</tspan></text></g> </svg>
TplFragments ==
    El("svg", << <<"viewBox", <<"0", " ", "0", " ", "9", "0", " ", "1", "0">>>> >>,
       << El("text", <<idOf("s"), <<"x", <<"0">>>>>>,
             Chars(<<"{">>) \o <<El("tspan", <<>>, Chars(Tail(tokP)))>>),
          El("text", <<idOf("u"), <<"x", <<"0">>>>>>,
             Chars(<<"{">>) \o <<El("tspan", <<>>, Chars(Tail(tokQ)))>>),
          El("text", <<idOf("n"), <<"x", <<"0">>>>>>,
             << El("tspan", <<>>,
                   Chars(<<"a">>) \o <<El("tspan", <<>>, Chars(<<"b">>))>>) >>),
          El("g", <<idOf("g")>>,
             << El("text", <<>>,
                   Chars(tokP) \o <<El("tspan", <<>>, Chars(tokQ))>>) >>) >>)

Scenarios ==
    { [tpl |-> TplTokens, map |-> << <<<<"t">>, colP>>, <<<<"r">>, colQ>> >>],
      [tpl |-> TplPlain, map |-> << <<<<"c">>, colQ>>, <<<<"t">>, colP>> >>],
      [tpl |-> TplGroups,
       map |-> << <<<<"g">>, colP>>, <<<<"h">>, colQ>>, <<<<"k">>, colP>> >>],
      [tpl |-> TplSplit, map |-> << <<<<"g">>, colP>>, <<<<"t">>, colP>> >>],
      [tpl |-> TplUnits,
       map |-> << <<<<"i">>, colQ>>, <<<<"z">>, colP>>, <<<<"t">>, colP>> >>],
      [tpl |-> TplChildSize,
       map |-> << <<<<"r">>, colQ>>, <<<<"e">>, colQ>>, <<<<"t">>, colP>> >>],
      [tpl |-> TplFragments,
       map |-> << <<<<"s">>, colP>>, <<<<"u">>, colP>>, <<<<"n">>, colP>>,
                  <<<<"g">>, colP>> >>],
      [tpl |-> TplStroke, map |-> <<>>] }

longText == <<"a", "b", "c", "d", "e", "f", "g", "h", "i", "j", "k", "l", "m">>

RowSet ==
    { (colP :> <<"a", "b">>) @@ (colQ :> <<"x", ".", "P", "N", "G">>)
        @@ (product_name :> <<"a", " ", "b">>),
      (colP :> longText) @@ (colQ :> <<"r", "e", "d">>)
        @@ (product_name :> <<"a", "_", "b">>),
      (colP :> <<>>) @@ (colQ :> <<"h", "t", "t", "p">>) }

\* The CSV holds between 1 and MaxRows rows.
MaxRows == 2

RowSeqs == UNION {[1..n -> RowSet] : n \in 1..MaxRows}

(***************************************************************************)
(* generateBanners                                                         *)
(***************************************************************************)
Init ==
    /\ \E sc \in Scenarios : template = sc.tpl /\ mapping = sc.map
    /\ rows \in RowSeqs
    /\ svgTemplate = template
    /\ viewport = [width |-> 0, height |-> 0]
    /\ browser = "none"
    /\ pc = "size"
    /\ i = 1
    /\ doc = El("html", <<>>, <<>>)
    /\ ev = [InitEv(doc) EXCEPT !.step = "done"]
    /\ captured = <<>>
    /\ disk = <<>>
    /\ generatedFiles = <<>>
    /\ reportData = <<>>
    /\ log = <<>>

\* One entry of the history: what happened, for which row, at which mapping
\* key (0 when none), touching which text elements.
Event(what, row, k, texts) == [e |-> what, row |-> row, k |-> k, texts |-> texts]

\* Lines 28-46: the size is settled and written into the template.
Sizer ==
    /\ pc = "size"
    /\ svgTemplate' = SizedTemplate(template)
    /\ pc' = "launch"
    /\ UNCHANGED <<log, template, mapping, rows, viewport, browser, i, doc, ev,
                   captured, disk, generatedFiles, reportData>>

\* Lines 68-89.
Launch ==
    /\ pc = "launch"
    /\ browser' = "open"
    /\ pc' = "newPage"
    /\ UNCHANGED <<log, template, mapping, rows, svgTemplate, viewport, i, doc, ev,
                   captured, disk, generatedFiles, reportData>>

\* Lines 90-93: the launch is rejected and the function throws.
LaunchFails ==
    /\ pc = "launch"
    /\ pc' = "thrown"
    /\ UNCHANGED <<log, template, mapping, rows, svgTemplate, viewport, browser, i,
                   doc, ev, captured, disk, generatedFiles, reportData>>

\* Lines 96-97.
NewPage ==
    /\ pc = "newPage"
    /\ pc' = "viewport"
    /\ UNCHANGED <<log, template, mapping, rows, svgTemplate, viewport, browser, i,
                   doc, ev, captured, disk, generatedFiles, reportData>>

\* Lines 98-101: the browser is closed before the function throws.
NewPageFails ==
    /\ pc = "newPage"
    /\ browser' = "closed"
    /\ pc' = "thrown"
    /\ UNCHANGED <<log, template, mapping, rows, svgTemplate, viewport, i, doc, ev,
                   captured, disk, generatedFiles, reportData>>

\* A row loop that loads the template for its first row only.
RowLoopNoReload(n, files) ==
    IF n <= Len(rows) THEN IF n = 1 THEN "setContent" ELSE "fonts"
    ELSE IF Len(files) > 0 THEN "upload" ELSE "close"

\* Where the row loop goes with loop variable n - 1: the next row, or the
\* upload loop over files (which has nothing to do when files is empty).
RowLoop(n, files) ==
    IF n <= Len(rows) THEN "setContent"
    ELSE IF Len(files) > 0 THEN "upload" ELSE "close"

\* Lines 103-108.
SetViewport ==
    /\ pc = "viewport"
    /\ viewport' = FinalSize(template)
    /\ i' = 1
    /\ pc' = RowLoop(1, generatedFiles)
    /\ UNCHANGED <<log, template, mapping, rows, svgTemplate, browser, doc, ev,
                   captured, disk, generatedFiles, reportData>>

\* A page that is loaded once and then keeps what it shows.
LoadContentOnce(d, tpl) == IF d.tag = "html" THEN tpl ELSE d

\* What page.setContent leaves in the page when it was showing d.
LoadContent(d, tpl) == tpl

\* Line 117: the load is rejected (a timeout, a crashed page); nothing around
\* the await catches it.
SetContentFails ==
    /\ pc = "setContent"
    /\ pc' = "thrown"
    /\ log' = Append(log, Event("fail", i, 0, {}))
    /\ UNCHANGED <<template, mapping, rows, svgTemplate, viewport, browser, i,
                   doc, ev, captured, disk, generatedFiles, reportData>>

\* Line 117.
SetContent ==
    /\ pc = "setContent"
    /\ doc' = LoadContent(doc, svgTemplate)
    /\ pc' = "fonts"
    /\ log' = Append(log, Event("load", i, 0, {}))
    /\ UNCHANGED <<template, mapping, rows, svgTemplate, viewport, browser, i,
                   ev, captured, disk, generatedFiles, reportData>>

\* Lines 120-126: fonts are ready; the mapping script starts unless the
\* mapping is empty.
FontsReady ==
    /\ pc = "fonts"
    /\ ev' = InitEv(doc)
    /\ pc' = "evaluate"
    /\ log' = Append(log, Event("fonts", i, 0, {}))
    /\ UNCHANGED <<template, mapping, rows, svgTemplate, viewport, browser, i,
                   doc, captured, disk, generatedFiles, reportData>>

\* A getBBox call throws only if the step makes one, and only among the
\* first MaxCalls calls of the row.
MayThrow(thrown) ==
    thrown => MakesCall(doc, ev, rows[i]) /\ ev.calls < MaxCalls

\* Lines 129-261: the forEach callback of one mapping key, up to truncation.
ApplyEntry ==
    /\ pc = "evaluate"
    /\ ev.step = "entry"
    /\ \E thrown \in BOOLEAN :
        /\ MayThrow(thrown)
        /\ doc' = EntryStep(doc, ev, rows[i], thrown).doc
        /\ ev' = EntryStep(doc, ev, rows[i], thrown).ev
    /\ log' = Append(log, Event("entry", i, ev.k, RewrittenTexts(doc, ev, rows[i])))
    /\ UNCHANGED <<template, mapping, rows, svgTemplate, viewport, browser, pc,
                   i, captured, disk, generatedFiles, reportData>>

\* Lines 264-342.
TruncCheck ==
    /\ pc = "evaluate"
    /\ ev.step = "truncCheck"
    /\ \E thrown \in BOOLEAN :
        /\ MayThrow(thrown)
        /\ doc' = TruncCheckStep(doc, ev, thrown).doc
        /\ ev' = TruncCheckStep(doc, ev, thrown).ev
    /\ log' = Append(log, Event("check", i, ev.last, {ev.el}))
    /\ UNCHANGED <<template, mapping, rows, svgTemplate, viewport, browser, pc,
                   i, captured, disk, generatedFiles, reportData>>

\* Lines 347-350.
TruncLoop ==
    /\ pc = "evaluate"
    /\ ev.step = "truncLoop"
    /\ \E thrown \in BOOLEAN :
        /\ MayThrow(thrown)
        /\ doc' = TruncLoopStep(doc, ev, thrown).doc
        /\ ev' = TruncLoopStep(doc, ev, thrown).ev
    /\ UNCHANGED <<log, template, mapping, rows, svgTemplate, viewport, browser, pc,
                   i, captured, disk, generatedFiles, reportData>>

\* Line 351.
TruncLoopLog ==
    /\ pc = "evaluate"
    /\ ev.step = "truncLoopLog"
    /\ \E thrown \in BOOLEAN :
        /\ MayThrow(thrown)
        /\ doc' = TruncLoopLogStep(doc, ev, thrown).doc
        /\ ev' = TruncLoopLogStep(doc, ev, thrown).ev
    /\ UNCHANGED <<log, template, mapping, rows, svgTemplate, viewport, browser, pc,
                   i, captured, disk, generatedFiles, reportData>>

\* Line 353.
TruncLog ==
    /\ pc = "evaluate"
    /\ ev.step = "truncLog"
    /\ \E thrown \in BOOLEAN :
        /\ MayThrow(thrown)
        /\ doc' = TruncLogStep(doc, ev, thrown).doc
        /\ ev' = TruncLogStep(doc, ev, thrown).ev
    /\ UNCHANGED <<log, template, mapping, rows, svgTemplate, viewport, browser, pc,
                   i, captured, disk, generatedFiles, reportData>>

\* Line 363: the script returned.
EvaluateDone ==
    /\ pc = "evaluate"
    /\ ev.step = "done"
    /\ pc' = "images"
    /\ UNCHANGED <<log, template, mapping, rows, svgTemplate, viewport, browser, i,
                   doc, ev, captured, disk, generatedFiles, reportData>>

\* Line 127: the script threw, page.evaluate rejects, and nothing around the
\* await catches it.
EvaluateThrows ==
    /\ pc = "evaluate"
    /\ ev.step = "thrown"
    /\ pc' = "thrown"
    /\ log' = Append(log, Event("fail", i, ev.last, {}))
    /\ UNCHANGED <<template, mapping, rows, svgTemplate, viewport, browser, i,
                   doc, ev, captured, disk, generatedFiles, reportData>>

\* Lines 367-382: every image loaded or failed, or the wait itself failed.
ImagesWait ==
    /\ pc = "images"
    /\ pc' = "screenshot"
    /\ log' = Append(log, Event("images", i, 0, {}))
    /\ UNCHANGED <<template, mapping, rows, svgTemplate, viewport, browser, i,
                   doc, ev, captured, disk, generatedFiles, reportData>>

IsAlnum(c) ==
    \/ IsDigit(c)
    \/ \E j \in 1..Len(LowerCase) : LowerCase[j] = c \/ UpperCase[j] = c

\* .replace(/[^a-z0-9ऀ-ॿ]/gi, '_')
Sanitize(s) == [j \in 1..Len(s) |-> IF IsAlnum(s[j]) THEN s[j] ELSE "_"]

\* Lines 112-113, n being i + 1.
FileName(row, n) ==
    Sanitize(IF RowValue(row, product_name) # <<>> THEN row[product_name]
             ELSE <<"b", "a", "n", "n", "e", "r", "_">> \o IntToStr(n))
    \o <<".", "p", "n", "g">>

\* Line 385.
DisplayName(row, n) ==
    IF RowValue(row, product_name) # <<>> THEN row[product_name]
    ELSE <<"B", "a", "n", "n", "e", "r", " ">> \o IntToStr(n)

\* The file of that name in files, 0 when there is none.
FileIndex(files, name) ==
    IF \E j \in 1..Len(files) : files[j].fileName = name
    THEN CHOOSE j \in 1..Len(files) : files[j].fileName = name
    ELSE 0

\* Writing a file creates it or replaces its content.
WriteFile(files, name, content) ==
    IF FileIndex(files, name) = 0
    THEN Append(files, [fileName |-> name, content |-> content])
    ELSE [files EXCEPT ![FileIndex(files, name)].content = content]

\* Line 384: the capture is rejected; nothing around the await catches it.
ScreenshotFails ==
    /\ pc = "screenshot"
    /\ pc' = "thrown"
    /\ log' = Append(log, Event("fail", i, 0, {}))
    /\ UNCHANGED <<template, mapping, rows, svgTemplate, viewport, browser, i,
                   doc, ev, captured, disk, generatedFiles, reportData>>

\* Lines 384-386.
Screenshot ==
    /\ pc = "screenshot"
    /\ captured' = Append(captured, [doc |-> doc, threw |-> ev.threw])
    /\ disk' = WriteFile(disk, FileName(rows[i], i), doc)
    /\ generatedFiles' = Append(generatedFiles,
            [name |-> DisplayName(rows[i], i), fileName |-> FileName(rows[i], i)])
    /\ i' = i + 1
    /\ pc' = RowLoop(i + 1, generatedFiles')
    /\ log' = Append(log, Event("capture", i, 0, {}))
    /\ UNCHANGED <<template, mapping, rows, svgTemplate, viewport, browser,
                   doc, ev, reportData>>

\* A report entry that always takes the first row.
ReportEntryFirstRow(n, ok) ==
    [row |-> rows[1],
     generated_file |-> generatedFiles[n].fileName,
     uploaded_url |-> IF ok THEN "URL" ELSE "UPLOAD_FAILED"]

\* Lines 397-416: the report entry of file n, ok telling whether its upload
\* succeeded.  The record stands for the row's columns spread into the entry.
ReportEntry(n, ok) ==
    [row |-> rows[n],
     generated_file |-> generatedFiles[n].fileName,
     uploaded_url |-> IF ok THEN "URL" ELSE "UPLOAD_FAILED"]

\* Lines 391-417, one file: the upload succeeds or fails.
Upload ==
    /\ pc = "upload"
    /\ LET n == Len(reportData) + 1 IN
       /\ \E ok \in BOOLEAN :
            /\ reportData' = Append(reportData, ReportEntry(n, ok))
            /\ log' = Append(log,
                    Event(IF ok THEN "uploaded" ELSE "uploadFailed", n, 0, {}))
       /\ pc' = IF n < Len(generatedFiles) THEN "upload" ELSE "close"
    /\ UNCHANGED <<template, mapping, rows, svgTemplate, viewport, browser, i,
                   doc, ev, captured, disk, generatedFiles>>

\* Lines 419-420.
Close ==
    /\ pc = "close"
    /\ browser' = "closed"
    /\ pc' = "returned"
    /\ UNCHANGED <<log, template, mapping, rows, svgTemplate, viewport, i, doc, ev,
                   captured, disk, generatedFiles, reportData>>

Next ==
    \/ Sizer \/ Launch \/ LaunchFails \/ NewPage \/ NewPageFails \/ SetViewport
    \/ SetContent \/ SetContentFails \/ FontsReady
    \/ ApplyEntry \/ TruncCheck \/ TruncLoop \/ TruncLoopLog \/ TruncLog
    \/ EvaluateDone \/ EvaluateThrows
    \/ ImagesWait \/ Screenshot \/ ScreenshotFails \/ Upload \/ Close

Spec == Init /\ [][Next]_vars

\* The script runs to completion: a loop that can make its next step makes it.
FairSpec == Spec /\ WF_vars(TruncLoop) /\ WF_vars(TruncLoopLog)

(***************************************************************************)
(* Row isolation                                                           *)
(***************************************************************************)
RECURSIVE Replay(_, _, _, _)
\* The document the mapping script leaves when it starts on d with locals e
\* for one row, oracle naming the getBBox calls of the row that throw.
Replay(d, e, row, oracle) ==
    IF e.step \in {"done", "thrown"} THEN d
    ELSE LET thrown == MakesCall(d, e, row) /\ (e.calls + 1) \in oracle
             r == EvalStep(d, e, row, thrown)
         IN  Replay(r.doc, r.ev, row, oracle)

\* A fresh copy of the sized template carrying the values of one row only.
FreshRender(row, oracle) ==
    Replay(svgTemplate, InitEv(svgTemplate), row, oracle)

\* C1: the document a row's screenshot is taken of is the one obtained from a
\* fresh copy of the template in which only that row's values were
\* substituted; nothing written for an earlier row is visible in it.
C1_RowIsolation ==
    pc = "screenshot" => doc = FreshRender(rows[i], ev.threw)

\* The second of two different rows is captured, each changed by its values.
C1_Witness ==
    /\ pc = "screenshot"
    /\ i = 2
    /\ rows[1] # rows[2]
    /\ captured[1].doc # svgTemplate
    /\ doc # svgTemplate
    /\ doc # captured[1].doc

(***************************************************************************)
(* The sizer                                                               *)
(***************************************************************************)
\* The viewport has been set (line 103).
ViewportSet ==
    pc \in {"setContent", "fonts", "evaluate", "images", "screenshot",
            "upload", "close", "returned"}

Declared(tpl, name) ==
    IF HasAttr(tpl, name) THEN ParseFloat(GetAttr(tpl, name)) ELSE NaN

\* C2: for a template whose root declares width and height, the viewport and
\* the rewritten root size are exactly three times the declared size.
C2_ExplicitSizeTimesThree ==
    (ViewportSet /\ HasAttr(template, "width") /\ HasAttr(template, "height"))
    => /\ Tenths(viewport.width) = 3 * Declared(template, "width")
       /\ Tenths(viewport.height) = 3 * Declared(template, "height")
       /\ Declared(svgTemplate, "width") = 3 * Declared(template, "width")
       /\ Declared(svgTemplate, "height") = 3 * Declared(template, "height")

\* The root carries a viewBox of four numbers.
RootViewBox(tpl) ==
    IF HasAttr(tpl, "viewBox") THEN ViewBoxGroups(GetAttr(tpl, "viewBox"))
    ELSE <<>>

\* C3: a root without explicit width and height takes its base size from the
\* last two numbers of its viewBox, and 800 by 400 when it has no viewBox
\* either; the viewport is three times the base size.
C3_SizerFallbackChain ==
    (ViewportSet /\ ~HasAttr(template, "width") /\ ~HasAttr(template, "height"))
    => IF RootViewBox(template) # <<>>
       THEN /\ 10 * viewport.width = 3 * ParseFloat(RootViewBox(template)[1])
            /\ 10 * viewport.height = 3 * ParseFloat(RootViewBox(template)[2])
       ELSE /\ viewport.width = 3 * 800
            /\ viewport.height = 3 * 400

(***************************************************************************)
(* The mapping entry last applied                                          *)
(***************************************************************************)
LastId == mapping[ev.last][1]

LastHeader == mapping[ev.last][2]

LastValue == RowValue(rows[i], LastHeader)

\* Where the entry's element was in the document before the entry.
LastPath == GetById(ev.before, LastId)

LastEl == NodeAt(ev.before, LastPath)

\* The state right after the mutation of an entry: a text element is about
\* to be measured, the script threw, or the callback of a shape, image, group
\* or skipped entry returned.
JustApplied ==
    /\ pc = "evaluate"
    /\ ev.last > 0
    /\ \/ ev.step \in {"truncCheck", "thrown"}
       \/ ev.el = NoPath /\ ev.step \in {"entry", "done"}

\* The script went on to the key after the entry.
WentOn ==
    /\ ev.k = ev.last + 1
    /\ ev.step = IF ev.last < Len(mapping) THEN "entry" ELSE "done"

Columns == {colP, colQ}

\* The entry has a value and its element is in the document.
Applies == LastValue # <<>> /\ LastPath # NoPath

RECURSIVE NodeExists(_, _)
NodeExists(n, p) ==
    IF p = <<>> THEN TRUE
    ELSE /\ IsElem(n)
         /\ p[1] \in 1..Len(n.kids)
         /\ NodeExists(n.kids[p[1]], Tail(p))

\* How many times the token of a column stands in markup.
TokenCount(markup, header) ==
    Cardinality({j \in 1..Len(markup) : MatchSpecific(markup, j, header) > 0})

\* No token at all, neither in the markup nor in the text of the element.
Tokenless(el) ==
    /\ ~HasMatch(InnerHTML(el), <<>>, TRUE)
    /\ ~HasMatch(Flat(TextContent(el)), <<>>, TRUE)

TextBearing(g) == Descendants(g, {"text", "tspan"})

\* The elements the placeholder cascade runs on for the entry: the mapped
\* text element itself, or the outermost text elements of the mapped group.
CascadePaths ==
    IF ~Applies \/ LastEl.tag \in ShapeTags \cup {"image"}
    THEN {}
    ELSE IF LastEl.tag # "g" THEN {LastPath}
    ELSE LET ds == TextBearing(LastEl)
         IN  {LastPath \o ds[j] : j \in {j \in 1..Len(ds) :
                \A m \in 1..Len(ds) : m = j \/ ~IsPrefix(ds[m], ds[j])}}

GroupFallbackCase ==
    /\ JustApplied
    /\ Applies
    /\ LastEl.tag = "g"
    /\ \A j \in 1..Len(TextBearing(LastEl)) :
            Tokenless(NodeAt(LastEl, TextBearing(LastEl)[j]))

FirstTextBearing == LastPath \o TextBearing(LastEl)[1]

\* C5: in a group without any token only the first text-bearing descendant
\* changes: its content becomes the value, and the document with that one
\* element put back is the document as it was.
C5_GroupFallback ==
    GroupFallbackCase =>
        IF Len(TextBearing(LastEl)) = 0 THEN doc = ev.before
        ELSE /\ NodeExists(doc, FirstTextBearing)
             /\ TextContent(NodeAt(doc, FirstTextBearing)) = LastValue
             /\ ReplaceAt(doc, FirstTextBearing,
                          NodeAt(ev.before, FirstTextBearing)) = ev.before

\* C5 as first stated: the first text-bearing descendant takes the value and
\* every other text-bearing descendant and all other markup is unchanged.
C5_OtherDescendantsUnchanged ==
    (GroupFallbackCase /\ Len(TextBearing(LastEl)) > 0) =>
        /\ TextContent(NodeAt(doc, FirstTextBearing)) = LastValue
        /\ \A j \in 2..Len(TextBearing(LastEl)) :
            LET q == LastPath \o TextBearing(LastEl)[j]
            IN  NodeExists(doc, q) /\ NodeAt(doc, q) = NodeAt(ev.before, q)
        /\ ReplaceAt(doc, LastPath, LastEl) = ev.before

\* A group of several token-free text elements took the value.
C5_Witness ==
    /\ GroupFallbackCase
    /\ Len(TextBearing(LastEl)) >= 2
    /\ TextContent(NodeAt(doc, FirstTextBearing)) = LastValue
    /\ doc # ev.before

(***************************************************************************)
(* Shape-to-image promotion                                                *)
(***************************************************************************)
\* The entry binds a shape to a value that reads as an image.
PromotionCase ==
    /\ JustApplied
    /\ Applies
    /\ LastEl.tag \in ShapeTags
    /\ IsImageUrl(LastValue)

\* An image element stands where the shape stood, with the shape's id, the
\* value as href and, for a rectangle, the geometric attributes it had.
Promoted ==
    LET img == NodeAt(doc, LastPath) IN
    /\ img.tag = "image"
    /\ ReplaceAt(doc, LastPath, LastEl) = ev.before
    /\ GetById(doc, LastId) = LastPath
    /\ HasAttr(img, "href") /\ GetAttr(img, "href") = LastValue
    /\ LastEl.tag = "rect" =>
        \A j \in 1..Len(RectGeometry) :
            HasAttr(LastEl, RectGeometry[j]) =>
                /\ HasAttr(img, RectGeometry[j])
                /\ GetAttr(img, RectGeometry[j]) = GetAttr(LastEl, RectGeometry[j])

\* C6: a shape bound to an image-like value is replaced in place by an image
\* element with the same id, unless its bounding box could not be computed.
C6_Promotion == (PromotionCase /\ ev.step # "thrown") => Promoted

\* C6 as first stated: the shape is replaced whenever the value is image-like.
C6_PromotionAlways == PromotionCase => Promoted

\* A rectangle with corner radii was promoted.
C6_Witness ==
    /\ PromotionCase
    /\ LastEl.tag = "rect"
    /\ HasAttr(LastEl, "rx")
    /\ NodeAt(doc, LastPath).tag = "image"

(***************************************************************************)
(* Skippable fields                                                        *)
(***************************************************************************)
\* The row has no value for the entry, or the template no element for it.
SkipCase == JustApplied /\ ~Applies

\* C8: an entry whose value is missing or empty, or whose id is not in the
\* template, changes nothing, raises nothing, and the script goes on to the
\* entries after it.
C8_SkippableField ==
    SkipCase => doc = ev.before /\ ev.step # "thrown" /\ WentOn

\* An entry was skipped for a missing id while another entry waits.
C8_Witness ==
    /\ SkipCase
    /\ LastPath = NoPath
    /\ LastValue # <<>>
    /\ ev.step = "entry"

(***************************************************************************)
(* Truncation                                                              *)
(***************************************************************************)
InLoop == pc = "evaluate" /\ ev.step \in {"truncLoop", "truncLoopLog"}

\* The loop condition was measured and found false.
LoopEnded == pc = "evaluate" /\ ev.step = "truncLog"

MeasuredWidth == TextBBox(NodeAt(doc, ev.el)).width

\* C7: the truncation loop ends, and when it ends by its condition the
\* element fits the budget or no character of the target's text is left: the
\* target then shows the ellipsis alone (nothing, if it had no text to begin
\* with), and the element may still be wider than the budget.
C7_TruncationEnds ==
    /\ InLoop ~> ~InLoop
    /\ [](LoopEnded =>
            \/ MeasuredWidth <= ev.avail
            \/ /\ ev.text = <<>>
               /\ TextContent(NodeAt(doc, ev.target)) =
                    IF ev.loopCount > 0 THEN Ellipsis ELSE <<>>)

\* C7 as first stated: the loop ends with the element within the budget or
\* with its text empty.
C7_FitsOrEmpty ==
    /\ InLoop ~> ~InLoop
    /\ [](LoopEnded =>
            \/ MeasuredWidth <= ev.avail
            \/ TextContent(NodeAt(doc, ev.el)) = <<>>)

\* The loop ran and ended with the element within its budget.
C7_Witness ==
    /\ LoopEnded
    /\ ev.loopCount >= 2
    /\ MeasuredWidth <= ev.avail
    /\ ev.text # <<>>

(***************************************************************************)
(* Failing measurements                                                    *)
(***************************************************************************)
\* The bounding box of the shape of the entry could not be computed.
ShapeBBoxFailed ==
    /\ PromotionCase
    /\ LastEl.tag # "rect"
    /\ ev.calls \in ev.threw

\* C9: when the bounding box of a non-rectangle shape cannot be computed the
\* shape stays as it was, nothing is raised, and the entries after it are
\* still applied.
C9_BBoxFailureSkipsMutation ==
    ShapeBBoxFailed => doc = ev.before /\ ev.step # "thrown" /\ WentOn

\* C10: when a measurement throws during truncation the element keeps the
\* text the mutation gave it, not truncated.
C10_CaughtLeavesUntruncated ==
    (pc \in {"evaluate", "images", "screenshot"} /\ ev.caught)
    => TextContent(NodeAt(doc, ev.el)) = ev.mutText

(***************************************************************************)
(* Row failures and the batch                                              *)
(***************************************************************************)
\* The content load, the mapping script or the capture of row r was rejected.
RowFailed(r) == \E j \in 1..Len(log) : log[j].e = "fail" /\ log[j].row = r

Reported(r) == \E j \in 1..Len(reportData) : reportData[j].row = rows[r]

\* C11: a rendering failure of one row does not abort the batch: the function
\* does not throw because of it, and when it returns every row that did not
\* fail has been reported.
C11_RowFailureKeepsBatch ==
    /\ (\E r \in 1..Len(rows) : RowFailed(r)) => pc # "thrown"
    /\ pc = "returned" =>
        \A r \in 1..Len(rows) : ~RowFailed(r) => Reported(r)

(***************************************************************************)
(* The result of a batch                                                   *)
(***************************************************************************)
\* The upload of file n failed.
UploadFailed(n) ==
    \E j \in 1..Len(log) : log[j].e = "uploadFailed" /\ log[j].row = n

\* C12: when the function returns, there is exactly one file entry and one
\* report entry per row, in row order; the report entry of row j is row j
\* with the file name of row j and the result of its upload, a failed upload
\* leaving the failure marker and nothing else.
C12_OrderedResults ==
    pc = "returned" =>
        /\ Len(generatedFiles) = Len(rows)
        /\ Len(reportData) = Len(rows)
        /\ \A j \in 1..Len(rows) :
            /\ generatedFiles[j].name = DisplayName(rows[j], j)
            /\ generatedFiles[j].fileName = FileName(rows[j], j)
            /\ reportData[j].row = rows[j]
            /\ reportData[j].generated_file = generatedFiles[j].fileName
            /\ reportData[j].uploaded_url =
                    IF UploadFailed(j) THEN "UPLOAD_FAILED" ELSE "URL"

\* Two different rows were reported, the upload of the first one failing.
C12_Witness ==
    /\ pc = "returned"
    /\ Len(rows) = 2
    /\ rows[1] # rows[2]
    /\ UploadFailed(1)
    /\ ~UploadFailed(2)
    /\ Len(reportData) = 2

(***************************************************************************)
(* The order of the steps of a row                                         *)
(***************************************************************************)
\* The places of the history where that happened for row r (at key k).
Places(what, r) == {j \in 1..Len(log) : log[j].e = what /\ log[j].row = r}

EntryPlaces(r, k) == {j \in Places("entry", r) : log[j].k = k}

\* C13: the capture of a row comes after the row's template load, then its
\* font wait, then the application of every mapping entry, then its image
\* wait, in that order, and before the template load of the next row.
C13_RowEventOrder ==
    \A r \in 1..Len(rows) : \A c \in Places("capture", r) :
        /\ \E l \in Places("load", r) : \E f \in Places("fonts", r) :
           \E m \in Places("images", r) :
                /\ l < f /\ f < m /\ m < c
                /\ \A k \in 1..Len(mapping) :
                        \E a \in EntryPlaces(r, k) : f < a /\ a < m
        /\ \A n \in Places("load", r + 1) : c < n

\* Two rows were captured, each with at least two mapping entries applied.
C13_Witness ==
    /\ Len(mapping) >= 2
    /\ Places("capture", 1) # {}
    /\ Places("capture", 2) # {}

(***************************************************************************)
(* Truncation coverage                                                     *)
(***************************************************************************)
\* The text elements row r had rewritten by the entry at place a.
RewrittenAt(r, a) == IF a \in Places("entry", r) THEN log[a].texts ELSE {}

\* The truncation block of lines 263-358 was entered for text element t of
\* row r after place a and before place c.
CheckedBetween(r, t, a, c) ==
    \E m \in Places("check", r) : a < m /\ m < c /\ t \in log[m].texts

\* C14: when a row is captured, every text element rewritten in that row,
\* mapped directly or as a descendant of a mapped group, has had the
\* truncation check applied after its last rewrite.
C14_TruncationCoverage ==
    \A r \in 1..Len(rows) : \A c \in Places("capture", r) :
        \A a \in Places("entry", r) : \A t \in RewrittenAt(r, a) :
            CheckedBetween(r, t, a, c)

(***************************************************************************)
(* The cascade of the text mutator                                         *)
(***************************************************************************)
\* A directly mapped text element was just rewritten.
TextCase ==
    /\ JustApplied
    /\ ev.step = "truncCheck"
    /\ Applies
    /\ LastEl.tag \in {"text", "tspan"}

\* The first strategy of the stated order that matches, 5 when none does.
StatedStrategy ==
    LET markup == InnerHTML(LastEl)
        plain == Flat(TextContent(LastEl))
    IN  CASE HasMatch(markup, LastHeader, FALSE) -> 1
          [] ~HasMatch(markup, LastHeader, FALSE)
             /\ HasMatch(markup, LastHeader, TRUE) -> 2
          [] ~HasMatch(markup, LastHeader, TRUE)
             /\ HasMatch(plain, LastHeader, FALSE) -> 3
          [] ~HasMatch(markup, LastHeader, TRUE)
             /\ ~HasMatch(plain, LastHeader, FALSE)
             /\ HasMatch(plain, LastHeader, TRUE) -> 4
          [] OTHER -> 5

\* The tspan children of an element, as indexes into its children.
TspanChildren(el) ==
    {j \in 1..Len(el.kids) : IsElem(el.kids[j]) /\ el.kids[j].tag = "tspan"}

\* How many inline formatting elements an element holds.
TspanCount(el) == Len(Descendants(el, {"tspan"}))

GroupCase == JustApplied /\ Applies /\ LastEl.tag = "g"

\* The text-bearing descendants of the mapped group that held a token, as
\* indexes into the list of line 184.
Matched ==
    {j \in 1..Len(TextBearing(LastEl)) :
        ~Tokenless(NodeAt(LastEl, TextBearing(LastEl)[j]))}

\* The j-th text-bearing descendant of the group is in the document as it
\* was before the entry.
Untouched(j) ==
    LET after == NodeAt(doc, LastPath)
    IN  /\ Len(TextBearing(after)) = Len(TextBearing(LastEl))
        /\ NodeAt(after, TextBearing(after)[j])
            = NodeAt(LastEl, TextBearing(LastEl)[j])

\* C16: in a mapped group every text-bearing descendant that holds a token
\* is rewritten; the first descendant takes the whole value exactly when no
\* descendant holds a token; and nothing of the group but its text-bearing
\* descendants changes.
C16_GroupScan ==
    GroupCase =>
        LET ds == TextBearing(LastEl)
            after == NodeAt(doc, LastPath)
        IN  /\ \A j \in Matched : ~Untouched(j)
            /\ (Matched = {} /\ Len(ds) > 0)
                    => TextContent(NodeAt(after, ds[1])) = LastValue
            /\ Matched # {}
                    => \A j \in 1..Len(ds) :
                        (j \notin Matched
                         /\ Len(TextBearing(after)) = Len(ds)) => Untouched(j)
            /\ after.tag = "g"
            /\ after.attrs = LastEl.attrs
            /\ Len(after.kids) = Len(LastEl.kids)
            /\ \A c \in 1..Len(LastEl.kids) :
                    (\A j \in 1..Len(ds) : ds[j][1] # c)
                        => after.kids[c] = LastEl.kids[c]

(***************************************************************************)
(* One image per row                                                       *)
(***************************************************************************)
\* C17: after a successful batch the file names of different rows differ,
\* and every row's file holds the capture of that row.
C17_OneImagePerRow ==
    pc = "returned" =>
        /\ Len(generatedFiles) = Len(rows)
        /\ \A a, b \in 1..Len(generatedFiles) :
                a # b => generatedFiles[a].fileName # generatedFiles[b].fileName
        /\ Len(disk) = Len(rows)
        /\ \A r \in 1..Len(generatedFiles) :
                LET f == FileIndex(disk, generatedFiles[r].fileName)
                IN  f # 0 /\ disk[f].content = captured[r].doc

(***************************************************************************)
(* Release of the browser                                                  *)
(***************************************************************************)
\* C18: once the browser was launched, the function neither returns nor
\* throws with the browser still open.
C18_BrowserReleased ==
    (pc \in {"returned", "thrown"} /\ browser # "none") => browser = "closed"

=============================================================================
